---------------------------- MODULE Spec2Model ----------------------------
(***************************************************************************)
(* Model of the terminal shim of live-photo-conv:                          *)
(*   src/include/bindings.h          get_console_width, is_a_tty           *)
(*   src/include/platformbindings.h  get_console_width_inline,             *)
(*                                   is_a_tty_inline                       *)
(*                                                                         *)
(* The state is the part of the host OS the two queries read (descriptor   *)
(* table, terminal geometry, per-thread error indicator) and, per calling  *)
(* thread, the position inside a call and its automatic variables.  A call *)
(* is two steps: the system call, which reads the OS state at one instant  *)
(* and fills the automatic variables, and the return, which computes the   *)
(* result from the automatic variables only.                               *)
(***************************************************************************)
EXTENDS Integers, FiniteSets

\* ------------------------------------------------------------------ bounds
\* Highest descriptor number of the descriptor table (0 .. MaxFd).
MaxFd == 2

\* ------------------------------------------------------- program constants
\* The descriptor the width query names.  The native-console branch names the
\* standard-error handle, modelled as the same slot of the descriptor table.
STDOUT_FILENO == 2 - 1
STDERR_FILENO == 2
STD_ERROR_HANDLE == 2

\* --------------------------------------------------------------- universes
Threads == {"t1", "t2"}
MainThread == "t1"
\* Storage that is not on any thread's stack (the shim declares none).
StaticSlot == "static"
Slots == Threads \cup {StaticSlot}

\* What a descriptor can be bound to: nothing, an open object that is not a
\* terminal ("file": a regular file, a pipe, /dev/null; the OS answers the
\* queries alike for all of them) or a terminal.
Terms == {"tty"}
Bindings == {"closed", "file"} \cup Terms
FDs == 0 .. MaxFd
\* Arguments tried for is_a_tty: every table entry and the invalid -1.
FdArgs == (0 - 1) .. MaxFd

\* unsigned short ws_col: the smallest, a usual and the largest value.
ColVals == {0, 80, 65535}
\* SMALL_RECT srWindow (signed 16-bit Left, Right): an 80 column window, an
\* inverted rectangle (Right < Left - 1) and the widest rectangle.
WinRects == {[Left |-> 0, Right |-> 79], [Left |-> 5, Right |-> 0], [Left |-> 0 - 32768, Right |-> 32767]}
NoRect == [Left |-> 0, Right |-> 79]

Platforms == {"posix", "win32"}
\* A thread's error indicator (errno, GetLastError).
Errs == {"NONE", "ENOTTY", "EBADF", "ERROR_INVALID_HANDLE"}

VARIABLES platform, fdtab, ws_col, srWindow, pc, op, fd, rc, w, csbi, err, ret, snap, rel, chg, overlap

vars == <<platform, fdtab, ws_col, srWindow, pc, op, fd, rc, w, csbi, err, ret, snap, rel, chg, overlap>>

NoSnap == [bind |-> "closed", status |-> 0, col |-> 0, rect |-> NoRect]

TypeOK ==
    /\ platform \in Platforms
    /\ fdtab \in [FDs -> Bindings]
    /\ ws_col \in [Terms -> ColVals]
    /\ srWindow \in [Terms -> WinRects]
    /\ pc \in [Threads -> {"ready", "called"}]
    /\ op \in [Threads -> {"none", "width", "tty"}]
    /\ fd \in [Threads -> FdArgs]
    /\ err \in [Threads -> Errs]
    /\ rel \in [Threads -> {"first", "other", "repeat", "stderr_same", "changed"}]
    /\ chg \in [Threads -> {"none", "off_stderr", "stderr"}]
    /\ overlap \in [Threads -> BOOLEAN]

\* ------------------------------------------------------------ the host OS
\* What descriptor f is bound to; a number outside the table is not open.
Lookup(f) == IF f \in FDs THEN fdtab[f] ELSE "closed"

\* ioctl (fd, TIOCGWINSZ, &w): 0 on a terminal, -1 otherwise.
ioctl_status(f) == IF Lookup(f) \in Terms THEN 0 ELSE 0 - 1

\* errno after a terminal request on f: set on failure, untouched on success.
errno_after(f, e) == IF Lookup(f) = "closed" THEN "EBADF" ELSE IF Lookup(f) \in Terms THEN e ELSE "ENOTTY"

\* The terminal sizes after the request: TIOCGWINSZ only reads them
\* (TIOCSWINSZ would store the caller's buffer).
ws_col_after_TIOCSWINSZ(f, buf) == IF Lookup(f) \in Terms THEN [ws_col EXCEPT ![Lookup(f)] = buf] ELSE ws_col
ws_col_after_ioctl(f, buf) == ws_col

\* GetConsoleScreenBufferInfo (GetStdHandle (STD_ERROR_HANDLE), &csbi):
\* non-zero on a console screen buffer, 0 otherwise.
GetConsoleScreenBufferInfo_status(f) == IF Lookup(f) \in Terms THEN 1 ELSE 0

LastError_after(f, e) == IF Lookup(f) \in Terms THEN e ELSE "ERROR_INVALID_HANDLE"

\* isatty (fd): 1 on a terminal, 0 otherwise.
isatty(f) == IF Lookup(f) \in Terms THEN 1 ELSE 0

\* _isatty (fd): non-zero (the _FDEV bit) on a character device, 0 otherwise.
win_isatty(f) == IF Lookup(f) \in Terms THEN 64 ELSE 0

\* errno after _isatty: EBADF for a bad descriptor, untouched otherwise.
win_errno_after(f, e) == IF Lookup(f) = "closed" THEN "EBADF" ELSE e

\* --------------------------------------------------------------- the shim
\* Each definition that models code is preceded by variants carrying a slip
\* the code could have made (a result kept from the previous call, the
\* inverted status test, a static buffer, ...); the properties below hold of
\* the code and fail for the variants.
\* Which header a thread's translation unit includes.
UsesInline(t) == t # MainThread

\* The automatic variables (struct winsize w, csbi) live in the caller's frame.
SharedStorage(t) == StaticSlot
Storage(t) == t

\* bindings.h, POSIX branch: if (fail) return 0; else return (int) w.ws_col;
get_console_width_cached(t, fail, col) == IF ret[t] # 0 THEN ret[t] ELSE IF fail # 0 THEN 0 ELSE col
get_console_width_inverted(t, fail, col) == IF fail = 0 THEN 0 ELSE col
get_console_width(t, fail, col) == IF fail # 0 THEN 0 ELSE col

\* platformbindings.h, POSIX branch.
get_console_width_inline_short(t, fail, col) == IF fail # 0 THEN 0 ELSE IF col >= 32768 THEN col - 65536 ELSE col
get_console_width_inline(t, fail, col) == IF fail # 0 THEN 0 ELSE col

\* bindings.h, native-console branch:
\* if (success) return csbi.srWindow.Right - csbi.srWindow.Left + 1; else return 0;
win_get_console_width_noplus(t, success, r) == IF success # 0 THEN r.Right - r.Left ELSE 0
win_get_console_width_inverted(t, success, r) == IF success = 0 THEN r.Right - r.Left + 1 ELSE 0
win_get_console_width(t, success, r) == IF success # 0 THEN r.Right - r.Left + 1 ELSE 0

\* platformbindings.h, native-console branch.
win_get_console_width_inline(t, success, r) == IF success # 0 THEN r.Right - r.Left + 1 ELSE 0

\* return (gboolean) (isatty (fd) != 0);
is_a_tty_eq1(r) == IF r = 1 THEN 1 ELSE 0
is_a_tty(r) == IF r # 0 THEN 1 ELSE 0

is_a_tty_inline(r) == IF r # 0 THEN 1 ELSE 0

\* ------------------------------------------------------------------- Init
Init ==
    /\ platform \in Platforms
    /\ fdtab \in [FDs -> Bindings]
    /\ ws_col \in [Terms -> ColVals]
    /\ srWindow \in [Terms -> WinRects]
    /\ (platform = "posix" => srWindow = [tm \in Terms |-> NoRect])
    /\ (platform = "win32" => ws_col = [tm \in Terms |-> 80])
    /\ pc = [t \in Threads |-> "ready"]
    /\ op = [t \in Threads |-> "none"]
    /\ fd = [t \in Threads |-> 2]
    /\ rc = [t \in Threads |-> 0]
    /\ w = [s \in Slots |-> 0]
    /\ csbi = [s \in Slots |-> NoRect]
    /\ err = [t \in Threads |-> "NONE"]
    /\ ret = [t \in Threads |-> 0]
    /\ snap = [t \in Threads |-> NoSnap]
    /\ rel = [t \in Threads |-> "first"]
    /\ chg = [t \in Threads |-> "none"]
    /\ overlap = [t \in Threads |-> FALSE]

\* ------------------------------------------------------ call bookkeeping
\* History kept for the properties.  rel[t] relates the call now starting to
\* the thread's previous call: "first" (there is none), "other" (another
\* operation or argument), "repeat" (the OS untouched in between),
\* "stderr_same" (only state other than standard error's binding and its
\* terminal's size changed) or "changed".  chg[t] is what the environment
\* changed since the thread's last system call.  overlap[t] tells whether the
\* call runs while another thread is inside a call.
Relation(t, o, f) ==
    IF op[t] = "none" THEN "first"
    ELSE IF op[t] # o \/ fd[t] # f THEN "other"
    ELSE IF chg[t] = "none" THEN "repeat"
    ELSE IF chg[t] = "off_stderr" /\ o = "width" THEN "stderr_same"
    ELSE "changed"

Enter(t, o, f) ==
    /\ pc[t] = "ready"
    /\ pc' = [pc EXCEPT ![t] = "called"]
    /\ rel' = [rel EXCEPT ![t] = Relation(t, o, f)]
    /\ op' = [op EXCEPT ![t] = o]
    /\ fd' = [fd EXCEPT ![t] = f]
    /\ chg' = [chg EXCEPT ![t] = "none"]
    /\ overlap' = [u \in Threads |-> IF u = t THEN \E v \in Threads \ {t} : pc[v] = "called" ELSE overlap[u] \/ pc[u] = "called"]
    /\ UNCHANGED <<platform, fdtab, srWindow, ret>>

\* --------------------------------------------------------------- actions
\* int fail = ioctl (STDERR_FILENO, TIOCGWINSZ, &w);
\* On failure w keeps whatever the uninitialised frame held.
Ioctl(t) ==
    /\ platform = "posix"
    /\ Enter(t, "width", STDERR_FILENO)
    /\ rc' = [rc EXCEPT ![t] = ioctl_status(STDERR_FILENO)]
    /\ IF ioctl_status(STDERR_FILENO) = 0
       THEN w' = [w EXCEPT ![Storage(t)] = ws_col[Lookup(STDERR_FILENO)]]
       ELSE \E g \in ColVals : w' = [w EXCEPT ![Storage(t)] = g]
    /\ err' = [err EXCEPT ![t] = errno_after(STDERR_FILENO, err[t])]
    /\ ws_col' = ws_col_after_ioctl(STDERR_FILENO, w[Storage(t)])
    /\ snap' = [snap EXCEPT ![t] = [bind |-> Lookup(STDERR_FILENO), status |-> ioctl_status(STDERR_FILENO), col |-> IF Lookup(STDERR_FILENO) \in Terms THEN ws_col[Lookup(STDERR_FILENO)] ELSE 0, rect |-> NoRect]]
    /\ UNCHANGED csbi

\* int success = GetConsoleScreenBufferInfo (GetStdHandle (STD_ERROR_HANDLE), &csbi);
GetCsbi(t) ==
    /\ platform = "win32"
    /\ Enter(t, "width", STD_ERROR_HANDLE)
    /\ rc' = [rc EXCEPT ![t] = GetConsoleScreenBufferInfo_status(STD_ERROR_HANDLE)]
    /\ IF GetConsoleScreenBufferInfo_status(STD_ERROR_HANDLE) # 0
       THEN csbi' = [csbi EXCEPT ![Storage(t)] = srWindow[Lookup(STD_ERROR_HANDLE)]]
       ELSE \E g \in WinRects : csbi' = [csbi EXCEPT ![Storage(t)] = g]
    /\ err' = [err EXCEPT ![t] = LastError_after(STD_ERROR_HANDLE, err[t])]
    /\ snap' = [snap EXCEPT ![t] = [bind |-> Lookup(STD_ERROR_HANDLE), status |-> GetConsoleScreenBufferInfo_status(STD_ERROR_HANDLE), col |-> 0, rect |-> IF Lookup(STD_ERROR_HANDLE) \in Terms THEN srWindow[Lookup(STD_ERROR_HANDLE)] ELSE NoRect]]
    /\ UNCHANGED <<w, ws_col>>

\* isatty (fd) / _isatty (fd)
Isatty(t, f) ==
    /\ Enter(t, "tty", f)
    /\ rc' = [rc EXCEPT ![t] = IF platform = "posix" THEN isatty(f) ELSE win_isatty(f)]
    /\ err' = [err EXCEPT ![t] = IF platform = "posix" THEN errno_after(f, err[t]) ELSE win_errno_after(f, err[t])]
    /\ snap' = [snap EXCEPT ![t] = [bind |-> Lookup(f), status |-> IF platform = "posix" THEN isatty(f) ELSE win_isatty(f), col |-> 0, rect |-> NoRect]]
    /\ UNCHANGED <<w, csbi, ws_col>>

\* The value get_console_width () hands back, from the caller's automatic variables.
WidthResult(t) ==
    IF platform = "posix"
    THEN IF UsesInline(t) THEN get_console_width_inline(t, rc[t], w[Storage(t)]) ELSE get_console_width(t, rc[t], w[Storage(t)])
    ELSE IF UsesInline(t) THEN win_get_console_width_inline(t, rc[t], csbi[Storage(t)]) ELSE win_get_console_width(t, rc[t], csbi[Storage(t)])

TtyResult(t) == IF UsesInline(t) THEN is_a_tty_inline(rc[t]) ELSE is_a_tty(rc[t])

\* return of either operation; the frame is gone afterwards.
Return(t) ==
    /\ pc[t] = "called"
    /\ pc' = [pc EXCEPT ![t] = "ready"]
    /\ ret' = [ret EXCEPT ![t] = IF op[t] = "width" THEN WidthResult(t) ELSE TtyResult(t)]
    /\ rc' = [rc EXCEPT ![t] = 0]
    /\ w' = [w EXCEPT ![Storage(t)] = 0]
    /\ csbi' = [csbi EXCEPT ![Storage(t)] = NoRect]
    /\ UNCHANGED <<platform, fdtab, ws_col, srWindow, op, fd, err, snap, rel, chg, overlap>>

\* ------------------------------------------------------- the environment
\* An environment step that touches standard error's binding or the size of
\* the terminal standard error is bound to (onStderr), or something else.
Changed(onStderr) == [t \in Threads |-> IF op[t] = "none" THEN "none" ELSE IF onStderr \/ chg[t] = "stderr" THEN "stderr" ELSE "off_stderr"]

\* The user resizes a terminal (POSIX: the kernel updates its winsize).
ResizePosix(tm, c) ==
    /\ platform = "posix"
    /\ ws_col[tm] # c
    /\ ws_col' = [ws_col EXCEPT ![tm] = c]
    /\ chg' = Changed(fdtab[2] = tm)
    /\ UNCHANGED <<platform, fdtab, srWindow, pc, op, fd, rc, w, csbi, err, ret, snap, rel, overlap>>

\* The console host changes the visible window of a screen buffer.
ResizeWin(tm, r) ==
    /\ platform = "win32"
    /\ srWindow[tm] # r
    /\ srWindow' = [srWindow EXCEPT ![tm] = r]
    /\ chg' = Changed(fdtab[2] = tm)
    /\ UNCHANGED <<platform, fdtab, ws_col, pc, op, fd, rc, w, csbi, err, ret, snap, rel, overlap>>

\* close / open / dup2 elsewhere in the process re-binds a descriptor.
Rebind(f, b) ==
    /\ fdtab[f] # b
    /\ fdtab' = [fdtab EXCEPT ![f] = b]
    /\ chg' = Changed(f = 2)
    /\ UNCHANGED <<platform, ws_col, srWindow, pc, op, fd, rc, w, csbi, err, ret, snap, rel, overlap>>

\* ------------------------------------------------------- specifications
\* One calling thread, the whole environment.
Next ==
    \/ Ioctl(MainThread)
    \/ GetCsbi(MainThread)
    \/ \E f \in FdArgs : Isatty(MainThread, f)
    \/ Return(MainThread)
    \/ \E tm \in Terms, c \in ColVals : ResizePosix(tm, c)
    \/ \E tm \in Terms, r \in WinRects : ResizeWin(tm, r)
    \/ \E f \in FDs, b \in Bindings : Rebind(f, b)

Spec == Init /\ [][Next]_vars

\* Several calling threads, each making one call, interleaved in every order
\* with each other and with the environment; standard input and standard
\* output stay on the terminal, standard error is re-bound.  Thread t1 calls
\* through bindings.h, thread t2 through platformbindings.h.
FirstCall(t) == op[t] = "none"

InitMT ==
    /\ Init
    /\ fdtab \in [FDs -> {"tty"}]

NextMT ==
    \/ \E t \in Threads : FirstCall(t) /\ Ioctl(t)
    \/ \E t \in Threads : FirstCall(t) /\ GetCsbi(t)
    \/ \E t \in Threads, f \in FdArgs : FirstCall(t) /\ Isatty(t, f)
    \/ \E t \in Threads : Return(t)
    \/ \E tm \in Terms, c \in ColVals : ResizePosix(tm, c)
    \/ \E tm \in Terms, r \in WinRects : ResizeWin(tm, r)
    \/ \E b \in Bindings : Rebind(2, b)

SpecMT == InitMT /\ [][NextMT]_vars

\* ------------------------------------------------------------- properties
\* Thread t has completed a call; op, fd, snap and ret describe it.
Returned(t) == pc[t] = "ready" /\ op[t] # "none"

\* Thread t takes the return step of a call.
Returns(t) == pc[t] = "called" /\ pc'[t] = "ready"

\* The width the OS state observed by a system call stands for: the columns of
\* the terminal standard error was bound to, 0 when it was bound to none.
WidthAt(s) == IF s.bind \in Terms THEN (IF platform = "posix" THEN s.col ELSE s.rect.Right - s.rect.Left + 1) ELSE 0

TtyAt(s) == IF s.bind \in Terms THEN 1 ELSE 0

\* C1: on the POSIX branch get_console_width() returns 0 when the TIOCGWINSZ
\* request reported a non-zero status, exactly the reported ws_col when it
\* reported success, and 0 whenever standard error was bound to a non-terminal.
C1_PosixWidth ==
    (platform = "posix" /\ Returned(MainThread) /\ op[MainThread] = "width") =>
        /\ (snap[MainThread].status # 0 => ret[MainThread] = 0)
        /\ (snap[MainThread].status = 0 => ret[MainThread] = snap[MainThread].col)
        /\ (snap[MainThread].bind \notin Terms => ret[MainThread] = 0)

\* A completed POSIX width query whose request failed on a non-terminal.
C1_Witness ==
    /\ platform = "posix" /\ Returned(MainThread) /\ op[MainThread] = "width"
    /\ snap[MainThread].bind = "file" /\ snap[MainThread].status # 0
    /\ err[MainThread] = "ENOTTY" /\ ret[MainThread] = 0

\* C2: on the native-console branch get_console_width() returns
\* srWindow.Right - srWindow.Left + 1 when the screen-buffer query succeeded
\* (non-zero status) and 0 when it failed (zero status).
C2_WinWidth ==
    (platform = "win32" /\ Returned(MainThread) /\ op[MainThread] = "width") =>
        /\ (snap[MainThread].status # 0 => ret[MainThread] = snap[MainThread].rect.Right - snap[MainThread].rect.Left + 1)
        /\ (snap[MainThread].status = 0 => ret[MainThread] = 0)

\* A completed native-console width query on the widest window rectangle.
C2_Witness ==
    /\ platform = "win32" /\ Returned(MainThread) /\ op[MainThread] = "width"
    /\ snap[MainThread].status # 0 /\ snap[MainThread].rect.Left < 0
    /\ ret[MainThread] = 65536

\* C3: is_a_tty(fd) returns true exactly when the OS terminal predicate
\* returned non-zero for fd: true on a terminal, false on a regular file, a
\* pipe and an invalid or closed descriptor.
C3_IsATty ==
    (Returned(MainThread) /\ op[MainThread] = "tty") =>
        /\ ret[MainThread] \in {0, 1}
        /\ (ret[MainThread] = 1 <=> snap[MainThread].status # 0)
        /\ (snap[MainThread].bind \in Terms => ret[MainThread] = 1)
        /\ (snap[MainThread].bind \in {"file", "closed"} => ret[MainThread] = 0)

\* A completed is_a_tty (-1): the invalid descriptor maps to false.
C3_Witness ==
    /\ Returned(MainThread) /\ op[MainThread] = "tty" /\ fd[MainThread] = 0 - 1
    /\ snap[MainThread].bind = "closed" /\ err[MainThread] = "EBADF" /\ ret[MainThread] = 0

\* C4: the result of get_console_width() is never negative, on both branches,
\* for every value the OS reports and for every failure of the query.
C4_NonNegative == (Returned(MainThread) /\ op[MainThread] = "width") => ret[MainThread] >= 0

\* C5: get_console_width() keeps no cached value: every call returns the
\* width (or 0) the OS reported at the instant of that call, also when an
\* earlier call of the thread saw another value.
C5_NoCache == (Returned(MainThread) /\ op[MainThread] = "width") => ret[MainThread] = WidthAt(snap[MainThread])

\* A width query that follows another one, with a resize to 80 columns in
\* between, and returns 80.
C5_Witness ==
    /\ platform = "posix" /\ Returned(MainThread) /\ op[MainThread] = "width"
    /\ rel[MainThread] = "changed" /\ snap[MainThread].bind \in Terms /\ ret[MainThread] = 80

\* C6: idempotence: a call that repeats the thread's previous call (same
\* operation, same fd) with no resize and no descriptor change in between
\* returns what the previous call returned.
C6_Idempotent == [][(Returns(MainThread) /\ rel[MainThread] = "repeat") => ret'[MainThread] = ret[MainThread]]_vars

\* A completed is_a_tty call on a terminal that repeated the previous call.
C6_Witness ==
    /\ Returned(MainThread) /\ rel[MainThread] = "repeat" /\ op[MainThread] = "tty"
    /\ chg[MainThread] = "none" /\ ret[MainThread] = 1

\* C7: get_console_width() depends only on standard error: when between two
\* width queries only state other than descriptor 2's binding and the size of
\* its terminal changed, the second returns what the first returned.
C7_OnlyStderr == [][(Returns(MainThread) /\ op[MainThread] = "width" /\ rel[MainThread] \in {"repeat", "stderr_same"}) => ret'[MainThread] = ret[MainThread]]_vars

\* Standard error on a regular file, standard output on an 80 column
\* terminal, other descriptors changed since the previous query: still 0.
C7_Witness ==
    /\ platform = "posix" /\ Returned(MainThread) /\ op[MainThread] = "width"
    /\ rel[MainThread] = "stderr_same" /\ snap[MainThread].bind = "file"
    /\ fdtab[1] = "tty" /\ ws_col["tty"] = 80 /\ ret[MainThread] = 0

\* C8 as stated: no step of a call changes the descriptor table, a binding,
\* the terminal dimensions or the error indicator.
C8_NoSideEffect == [][(pc' # pc) => (UNCHANGED <<fdtab, ws_col, srWindow>> /\ err' = err)]_vars

\* C8 amended: no step of a call changes the descriptor table, a binding or
\* the terminal dimensions, nor the error indicator of another thread; the
\* caller's own error indicator is not preserved.
C8_Frame == [][(pc' # pc) => (UNCHANGED <<platform, fdtab, ws_col, srWindow>> /\ \A u \in Threads : pc'[u] = pc[u] => err'[u] = err[u])]_vars

\* A failed width query has completed on a terminal-less standard error and
\* left ENOTTY behind.
C8_Witness ==
    /\ platform = "posix" /\ Returned(MainThread) /\ op[MainThread] = "width"
    /\ snap[MainThread].bind = "file" /\ fdtab[2] = "file" /\ err[MainThread] = "ENOTTY"

\* C9: under any interleaving of the threads' calls and resizes every call
\* returns the value of the OS state at the instant of its own system call,
\* and the shim writes no storage shared between threads.
C9_ThreadSafe ==
    /\ \A t \in Threads : Returned(t) => ret[t] = (IF op[t] = "width" THEN WidthAt(snap[t]) ELSE TtyAt(snap[t]))
    /\ w[StaticSlot] = 0
    /\ csbi[StaticSlot] = NoRect

\* Two width queries that overlapped in time, with a resize between their
\* system calls, have both completed with different results.
C9_Witness ==
    /\ \A t \in Threads : Returned(t) /\ op[t] = "width" /\ overlap[t] /\ snap[t].bind \in Terms
    /\ ret["t1"] # ret["t2"]

\* C10: the two headers implement the same operations: from the same status
\* and buffer, get_console_width of bindings.h and get_console_width_inline
\* of platformbindings.h return the same value, and so do is_a_tty and
\* is_a_tty_inline, on each platform branch.
C10_HeadersAgree ==
    \A t \in Threads : pc[t] = "called" =>
        /\ (op[t] = "width" /\ platform = "posix") => get_console_width(t, rc[t], w[Storage(t)]) = get_console_width_inline(t, rc[t], w[Storage(t)])
        /\ (op[t] = "width" /\ platform = "win32") => win_get_console_width(t, rc[t], csbi[Storage(t)]) = win_get_console_width_inline(t, rc[t], csbi[Storage(t)])
        /\ (op[t] = "tty") => is_a_tty(rc[t]) = is_a_tty_inline(rc[t])

\* A width query of each header is in flight on a 65535 column terminal.
C10_Witness ==
    /\ platform = "posix"
    /\ \A t \in Threads : pc[t] = "called" /\ op[t] = "width" /\ rc[t] = 0 /\ w[Storage(t)] = 65535

=============================================================================
